---- MODULE Spec2Model ----
(***************************************************************************)
(* A model of package dig (src/mapping.go, lines 1-241): the Mapping type   *)
(* with its decode hooks UnmarshalJSON and UnmarshalYAML, Dig, DigString,   *)
(* DigMapping, Dup, HasKey, HasMapping, Merge and the reflection-driven     *)
(* deepCopy.                                                                *)
(*                                                                          *)
(* Go maps and slices are reference types, so the model keeps an explicit   *)
(* heap: an address names one map or one slice backing array, and a Go      *)
(* value of interface type `any` is a scalar, the untyped nil, or a         *)
(* reference to a heap object.  Two values alias when they hold the same    *)
(* address.                                                                 *)
(***************************************************************************)
EXTENDS Naturals, Sequences, FiniteSets, TLC

\* ------------------------------------------------------------------ values

\* The map keys the model uses, and an order to enumerate them in.
Keys == {"a", "b"}

\* The orders in which a `range` over a map may visit its keys.
Perms == {<<"a", "b">>, <<"b", "a">>}

\* The order used when the outcome does not depend on it.
CanonOrd == <<"a", "b">>

\* "key not present": what a map holds at a key it does not contain.
Absent == [t |-> "absent", a |-> 0]

\* The untyped nil interface value (the null marker).
Nil == [t |-> "nil", a |-> 0]

\* A string scalar; Str(0) is the empty string "".
Str(n) == [t |-> "string", a |-> n]

\* A map or slice value: the address of its heap object.
Ref(x) == [t |-> "ref", a |-> x]

IsRef(v) == v.t = "ref"

\* The dynamic types of heap objects.  A map[any]any (what a YAML decoder
\* makes of a nested mapping) occurs in decoded documents only.
MapKinds == {"Mapping", "map[string]any"}
SliceKinds == {"[]any", "[]string", "[]Mapping"}

NoKeys == [k \in Keys |-> Absent]

\* The keys of a map[any]any: a key is a dynamic type and the text that
\* fmt.Sprintf("%v", k) prints for it (the string "a" and a key of another
\* type that prints as a, such as the int 1 and the string "1", are two keys).
AnyKeys == [t : {"string", "int"}, s : Keys]

NoAnyKeys == [k \in AnyKeys |-> Absent]

\* fmt.Sprintf("%v", k)
Sprint(k) == k.s

\* A heap object: a string-keyed map (kv: key -> value or Absent), a
\* map[any]any (fk) or a slice (el).
MapObj(kind, kv) == [kind |-> kind, kv |-> kv, fk |-> NoAnyKeys, el |-> <<>>]
AnyMapObj(fk) == [kind |-> "map[any]any", kv |-> NoKeys, fk |-> fk, el |-> <<>>]
SliceObj(kind, el) == [kind |-> kind, kv |-> NoKeys, fk |-> NoAnyKeys, el |-> el]

\* make(Mapping) / Mapping{} / reflect.MakeMap: a fresh empty map.
Alloc(h, obj) == [h |-> Append(h, obj), a |-> Len(h) + 1]

KindOf(h, v) == IF IsRef(v) THEN h[v.a].kind ELSE v.t

\* v.(Mapping) succeeds.
IsMapping(h, v) == IsRef(v) /\ h[v.a].kind = "Mapping"

\* m[k] = v on the map at address m.
SetKey(h, m, k, v) == [h EXCEPT ![m].kv[k] = v]

\* s[i] = v on the slice at address s (i counted from 1).
SetElem(h, s, i, v) == [h EXCEPT ![s].el[i] = v]

\* The keys present in the map at address m, in the order ord.
PresentKeys(h, m, ord) == SelectSeq(ord, LAMBDA k : h[m].kv[k] # Absent)

\* The zero value of a slice's element type.
ZeroOf(kind) == IF kind = "[]string" THEN Str(0) ELSE Nil

\* ------------------------------------------------------------- normalizer

\* A call's result is a record: h, the heap after the call; v, the value
\* returned; and, for the calls that can panic, panic.

\* s[i] = r.v and m[k] = r.v in the heap the call that returned r left.
PutElem(r, s, i) == SetElem(r.h, s, i, r.v)
PutKey(r, m, k) == SetKey(r.h, m, k, r.v)

RECURSIVE cleanUpValue(_, _, _)
RECURSIVE cleanUpArrayFrom(_, _, _, _, _)
RECURSIVE cleanUpMapKeys(_, _, _, _, _)

\* The order in which a `range` over a map[any]any visits its keys is not
\* specified: rev is the set of the maps whose range visits them in the
\* reverse of AnyKeyOrd.
AnyKeyOrd ==
    <<[t |-> "string", s |-> "a"], [t |-> "int", s |-> "a"],
      [t |-> "string", s |-> "b"], [t |-> "int", s |-> "b"]>>

Reverse(q) == [i \in 1..Len(q) |-> q[Len(q) + 1 - i]]

PresentAnyKeys(h, m, rev) ==
    SelectSeq(IF m \in rev THEN Reverse(AnyKeyOrd) ELSE AnyKeyOrd,
              LAMBDA k : h[m].fk[k] # Absent)

RECURSIVE stringifyFrom(_, _, _, _)

\* The loop of stringifyKeys: result[fmt.Sprintf("%v", k)] = v, so that of
\* two keys with the same text the one visited last stays.
stringifyFrom(h, in, result, ks) ==
    IF ks = <<>> THEN h
    ELSE stringifyFrom(SetKey(h, result, Sprint(Head(ks)), h[in].fk[Head(ks)]),
                       in, result, Tail(ks))

\* stringifyKeys(in map[any]any) map[string]any
stringifyKeys(h, in, rev) ==
    LET n == Alloc(h, MapObj("map[string]any", NoKeys))
    IN  [h |-> stringifyFrom(n.h, in, n.a, PresentAnyKeys(h, in, rev)),
         v |-> Ref(n.a)]

\* The loop of cleanUpInterfaceArray: result[i] = cleanUpValue(in[i]).
cleanUpArrayFrom(h, in, result, i, rev) ==
    IF i > Len(h[in].el) THEN h
    ELSE cleanUpArrayFrom(PutElem(cleanUpValue(h, h[in].el[i], rev), result, i),
                          in, result, i + 1, rev)

\* cleanUpInterfaceArray(in []any) []any: a new slice of the cleaned elements.
cleanUpInterfaceArray(h, in, rev) ==
    LET n == Alloc(h, SliceObj("[]any", [i \in 1..Len(h[in].el) |-> Nil]))
    IN  [h |-> cleanUpArrayFrom(n.h, in, n.a, 1, rev), v |-> Ref(n.a)]

\* The loop of cleanUpInterfaceMap: result[k] = cleanUpValue(v).  A plain map
\* assignment keeps a nil value as a present key.
cleanUpMapKeys(h, in, result, ks, rev) ==
    IF ks = <<>> THEN h
    ELSE cleanUpMapKeys(PutKey(cleanUpValue(h, h[in].kv[Head(ks)], rev), result, Head(ks)),
                        in, result, Tail(ks), rev)

\* cleanUpInterfaceMap(in map[string]any) Mapping: a new Mapping of the
\* cleaned values.
cleanUpInterfaceMap(h, in, rev) ==
    LET n == Alloc(h, MapObj("Mapping", NoKeys))
    IN  [h |-> cleanUpMapKeys(n.h, in, n.a, PresentKeys(h, in, CanonOrd), rev),
         v |-> Ref(n.a)]

\* cleanUpInterfaceMap(s), s being what stringifyKeys returned.
cleanUpStringified(s, rev) == cleanUpInterfaceMap(s.h, s.v.a, rev)

\* A faulty cleanUpValue, which does not look into a []any.
cleanUpValueFlat(h, v, rev) ==
    IF KindOf(h, v) = "map[string]any" THEN cleanUpInterfaceMap(h, v.a, rev)
    ELSE IF KindOf(h, v) = "map[any]any"
    THEN cleanUpStringified(stringifyKeys(h, v.a, rev), rev)
    ELSE [h |-> h, v |-> v]

\* cleanUpValue: []any, map[string]any and map[any]any are rebuilt, anything
\* else (a Mapping, a typed slice, a scalar, nil) is returned as it is.
cleanUpValue(h, v, rev) ==
    IF KindOf(h, v) = "[]any" THEN cleanUpInterfaceArray(h, v.a, rev)
    ELSE IF KindOf(h, v) = "map[string]any" THEN cleanUpInterfaceMap(h, v.a, rev)
    ELSE IF KindOf(h, v) = "map[any]any"
    THEN cleanUpStringified(stringifyKeys(h, v.a, rev), rev)
    ELSE [h |-> h, v |-> v]

\* The error a decoder returns for a text it cannot decode into a map.
Err == [t |-> "error", a |-> 0]

\* `var result map[string]any` after the decoder has filled it from a text
\* whose decoded form is doc: the map doc refers to, or, for the text `null`,
\* which leaves result nil, a map without keys.
DecodedResult(h, doc) ==
    IF doc = Nil THEN Alloc(h, MapObj("map[string]any", NoKeys))
    ELSE [h |-> h, a |-> doc.a]

\* *m = cleanUpInterfaceMap(result); return nil
Normalized(d, rev) ==
    [h |-> cleanUpInterfaceMap(d.h, d.a, rev).h,
     m |-> Ref(Len(d.h) + 1), err |-> Nil]

\* (m *Mapping) UnmarshalJSON(text []byte) error, doc being what
\* json.Unmarshal makes of text (Absent: it returns an error).
UnmarshalJSON(h, m, doc, rev) ==
    IF doc = Absent THEN [h |-> h, m |-> m, err |-> Err]
    ELSE Normalized(DecodedResult(h, doc), rev)

\* (m *Mapping) UnmarshalYAML(unmarshal func(any) error) error, doc being
\* what unmarshal makes of the document (Absent: it returns an error).
UnmarshalYAML(h, m, doc, rev) ==
    IF doc = Absent THEN [h |-> h, m |-> m, err |-> Err]
    ELSE Normalized(DecodedResult(h, doc), rev)

\* ----------------------------------------------------------------- cloner

RECURSIVE deepCopy(_, _, _)
RECURSIVE deepCopyMapKeys(_, _, _, _, _)
RECURSIVE deepCopyMapKeysThen(_, _, _, _, _)
RECURSIVE deepCopySliceFrom(_, _, _, _, _)
RECURSIVE deepCopySliceFromThen(_, _, _, _, _)

\* reflect.Value.SetMapIndex(key, reflect.ValueOf(x)): reflect.ValueOf(nil)
\* is the zero Value, and SetMapIndex with the zero Value deletes the key.
SetMapIndex(h, m, k, x) ==
    IF x = Nil THEN SetKey(h, m, k, Absent) ELSE SetKey(h, m, k, x)

\* newSlice.Index(i).Set(reflect.ValueOf(x)) panics when reflect.ValueOf(x)
\* is the zero Value, that is when x is the untyped nil.
SetPanics(x) == x = Nil

\* The loop of deepCopy's reflect.Map case over the keys ks:
\* newMap.SetMapIndex(key, reflect.ValueOf(deepCopy(...))).
deepCopyMapKeys(h, val, newMap, ks, ord) ==
    IF ks = <<>> THEN [h |-> h, panic |-> FALSE]
    ELSE deepCopyMapKeysThen(deepCopy(h, h[val].kv[Head(ks)], ord),
                             val, newMap, ks, ord)

\* The rest of the loop once deepCopy has returned r for the key Head(ks).
deepCopyMapKeysThen(r, val, newMap, ks, ord) ==
    IF r.panic THEN [h |-> r.h, panic |-> TRUE]
    ELSE deepCopyMapKeys(SetMapIndex(r.h, newMap, Head(ks), r.v),
                         val, newMap, Tail(ks), ord)

\* The loop of deepCopy's reflect.Slice case from index i on:
\* newSlice.Index(i).Set(reflect.ValueOf(deepCopy(...))).
deepCopySliceFrom(h, val, newSlice, i, ord) ==
    IF i > Len(h[val].el) THEN [h |-> h, panic |-> FALSE]
    ELSE deepCopySliceFromThen(deepCopy(h, h[val].el[i], ord),
                               val, newSlice, i, ord)

\* The rest of the loop once deepCopy has returned r for the index i.
deepCopySliceFromThen(r, val, newSlice, i, ord) ==
    IF r.panic \/ SetPanics(r.v) THEN [h |-> r.h, panic |-> TRUE]
    ELSE deepCopySliceFrom(PutElem(r, newSlice, i), val, newSlice, i + 1, ord)

\* The result of a call that cannot panic, as one of a call that can.
NoPanic(c) == [h |-> c.h, v |-> c.v, panic |-> FALSE]

\* The end of deepCopy's reflect.Map case, r being what the loop returned: a
\* map[string]any goes through cleanUpInterfaceMap, any other map type is
\* returned as built.  (The values copied hold no map[any]any, so that the
\* order of its keys plays no part here.)
deepCopyMapDone(r, kind, newMap) ==
    IF r.panic THEN [h |-> r.h, v |-> Nil, panic |-> TRUE]
    ELSE IF kind = "map[string]any" THEN NoPanic(cleanUpInterfaceMap(r.h, newMap, {}))
    ELSE [h |-> r.h, v |-> Ref(newMap), panic |-> FALSE]

\* The end of deepCopy's reflect.Slice case: a []any goes through
\* cleanUpInterfaceArray, any other slice type is returned as built.
deepCopySliceDone(r, kind, newSlice) ==
    IF r.panic THEN [h |-> r.h, v |-> Nil, panic |-> TRUE]
    ELSE IF kind = "[]any" THEN NoPanic(cleanUpInterfaceArray(r.h, newSlice, {}))
    ELSE [h |-> r.h, v |-> Ref(newSlice), panic |-> FALSE]

\* A faulty deepCopy, which returns the value itself (a shallow copy).
deepCopyShallow(h, value, ord) == [h |-> h, v |-> value, panic |-> FALSE]

\* deepCopy(value any) any.
deepCopy(h, value, ord) ==
    IF value = Nil THEN [h |-> h, v |-> Nil, panic |-> FALSE]
    ELSE IF KindOf(h, value) \in MapKinds THEN
        LET n == Alloc(h, MapObj(h[value.a].kind, NoKeys))
        IN  deepCopyMapDone(
                deepCopyMapKeys(n.h, value.a, n.a, PresentKeys(h, value.a, ord), ord),
                h[value.a].kind, n.a)
    ELSE IF KindOf(h, value) \in SliceKinds THEN
        LET kind == h[value.a].kind
            n == Alloc(h, SliceObj(kind, [i \in 1..Len(h[value.a].el) |-> ZeroOf(kind)]))
        IN  deepCopySliceDone(deepCopySliceFrom(n.h, value.a, n.a, 1, ord), kind, n.a)
    ELSE [h |-> h, v |-> value, panic |-> FALSE]

RECURSIVE DupKeys(_, _, _, _, _)
RECURSIVE DupKeysThen(_, _, _, _, _)

\* The loop of Dup: newMap[k] = deepCopy(v), a plain map assignment.
DupKeys(h, m, newMap, ks, ord) ==
    IF ks = <<>> THEN [h |-> h, panic |-> FALSE]
    ELSE DupKeysThen(deepCopy(h, h[m].kv[Head(ks)], ord), m, newMap, ks, ord)

\* The rest of the loop once deepCopy has returned r for the key Head(ks).
DupKeysThen(r, m, newMap, ks, ord) ==
    IF r.panic THEN [h |-> r.h, panic |-> TRUE]
    ELSE DupKeys(PutKey(r, newMap, Head(ks)), m, newMap, Tail(ks), ord)

\* Dup's return, r being what the loop returned.
DupDone(r, newMap) ==
    [h |-> r.h, v |-> IF r.panic THEN Nil ELSE Ref(newMap), panic |-> r.panic]

\* (m *Mapping) Dup() Mapping, on the Mapping at address m.
Dup(h, m, ord) ==
    LET n == Alloc(h, MapObj("Mapping", NoKeys))
    IN  DupDone(DupKeys(n.h, m, n.a, PresentKeys(h, m, ord), ord), n.a)

\* --------------------------------------------------------------- accessor

RECURSIVE Dig(_, _, _)

\* A faulty Dig, which returns a value that is no Mapping also when keys are
\* left to look up.
DigThroughLeaf(h, m, keys) ==
    IF Len(keys) = 0 THEN Nil
    ELSE LET v == h[m].kv[keys[1]]
         IN  IF v = Absent THEN Nil
             ELSE IF IsMapping(h, v)
                  THEN IF Len(keys) = 1 THEN v ELSE Dig(h, v.a, Tail(keys))
                  ELSE v

\* (m *Mapping) Dig(keys ...string) any.
Dig(h, m, keys) ==
    IF Len(keys) = 0 THEN Nil
    ELSE LET v == h[m].kv[keys[1]]
         IN  IF v = Absent THEN Nil
             ELSE IF IsMapping(h, v)
                  THEN IF Len(keys) = 1 THEN v ELSE Dig(h, v.a, Tail(keys))
                  ELSE IF Len(keys) > 1 THEN Nil ELSE v

\* (m *Mapping) DigString(keys ...string) string.
DigString(h, m, keys) ==
    LET v == Dig(h, m, keys)
    IN  IF v.t = "string" THEN v ELSE Str(0)

\* (m *Mapping) HasKey(key string) bool.
HasKey(h, m, key) == h[m].kv[key] # Absent

\* (m *Mapping) HasMapping(key string) bool.
HasMapping(h, m, key) ==
    IF h[m].kv[key] = Absent THEN FALSE ELSE IsMapping(h, h[m].kv[key])

\* A faulty DigMappingNew, which does not store the new Mapping in m.
DigMappingNewDetached(h, m, k) == Alloc(h, MapObj("Mapping", NoKeys))

\* DigMapping's default case: n := Mapping{}; (*m)[k] = n.
DigMappingNew(h, m, k) ==
    LET n == Alloc(h, MapObj("Mapping", NoKeys))
    IN  [h |-> SetKey(n.h, m, k, Ref(n.a)), a |-> n.a]

RECURSIVE DigMapping(_, _, _)

\* A faulty DigMapping, which returns the receiver for an empty keys.
DigMappingEmptyDefault(h, m, keys) ==
    IF Len(keys) = 0 THEN [h |-> h, v |-> Ref(m), panic |-> FALSE]
    ELSE LET k == keys[1]
             cur == h[m].kv[k]
         IN  IF IsMapping(h, cur)
             THEN IF Len(keys) > 1 THEN DigMapping(h, cur.a, Tail(keys))
                  ELSE [h |-> h, v |-> cur, panic |-> FALSE]
             ELSE LET n == DigMappingNew(h, m, k)
                  IN  IF Len(keys) > 1 THEN DigMapping(n.h, n.a, Tail(keys))
                      ELSE [h |-> n.h, v |-> Ref(n.a), panic |-> FALSE]

\* A faulty DigMapping, which stores a new Mapping at every key of the path,
\* also where a Mapping is held.
DigMappingClearing(h, m, keys) ==
    IF Len(keys) = 0 THEN [h |-> h, v |-> Nil, panic |-> TRUE]
    ELSE LET n == DigMappingNew(h, m, keys[1])
         IN  IF Len(keys) > 1 THEN DigMapping(n.h, n.a, Tail(keys))
             ELSE [h |-> n.h, v |-> Ref(n.a), panic |-> FALSE]

\* (m *Mapping) DigMapping(keys ...string) Mapping.  keys[0] on an empty
\* keys panics (index out of range) before anything is written.
DigMapping(h, m, keys) ==
    IF Len(keys) = 0 THEN [h |-> h, v |-> Nil, panic |-> TRUE]
    ELSE LET k == keys[1]
             cur == h[m].kv[k]
         IN  IF IsMapping(h, cur)
             THEN IF Len(keys) > 1 THEN DigMapping(h, cur.a, Tail(keys))
                  ELSE [h |-> h, v |-> cur, panic |-> FALSE]
             ELSE LET n == DigMappingNew(h, m, k)
                  IN  IF Len(keys) > 1 THEN DigMapping(n.h, n.a, Tail(keys))
                      ELSE [h |-> n.h, v |-> Ref(n.a), panic |-> FALSE]

\* ----------------------------------------------------------------- merger

\* MergeOptions as set by the MergeOption functions passed to Merge.
OptionSets == [Overwrite : BOOLEAN, Nillify : BOOLEAN]

\* MergeOptions{}: no option given.
NoOptions == [Overwrite |-> FALSE, Nillify |-> FALSE]

RECURSIVE Merge(_, _, _, _, _)
RECURSIVE MergeKeys(_, _, _, _, _, _)
RECURSIVE MergeKeysThen(_, _, _, _, _, _)
RECURSIVE MergeInto(_, _, _, _)
RECURSIVE MergeKey(_, _, _, _, _, _)
RECURSIVE MergeMappingCase(_, _, _, _, _, _)
RECURSIVE MergeMappingCaseWholesale(_, _, _, _, _, _)

\* m[k] = x when the copy that made x did not panic.
Store(d, m, k) ==
    [h |-> IF d.panic THEN d.h ELSE SetKey(d.h, m, k, d.v), panic |-> d.panic]

\* t.v.Merge(source, opts...), t being what m.DigMapping(k) returned.
MergeInto(t, source, options, ord) == Merge(t.h, t.v.a, source, options, ord)

\* A faulty MergeMappingCase, which lets the Overwrite option replace a
\* Mapping of the target by a clone of the source's.
MergeMappingCaseWholesale(h, m, v, options, k, ord) ==
    IF ~HasKey(h, m, k) \/ options.Overwrite THEN Store(Dup(h, v.a, ord), m, k)
    ELSE IF HasMapping(h, m, k) THEN
        MergeInto(DigMapping(h, m, <<k>>), v.a, options, ord)
    ELSE [h |-> h, panic |-> FALSE]

\* Merge's `case Mapping:` for the key k, whose source value v is a Mapping.
MergeMappingCase(h, m, v, options, k, ord) ==
    IF ~HasKey(h, m, k) THEN Store(Dup(h, v.a, ord), m, k)
    ELSE IF HasMapping(h, m, k) THEN
        MergeInto(DigMapping(h, m, <<k>>), v.a, options, ord)
    ELSE IF options.Overwrite THEN Store(Dup(h, v.a, ord), m, k)
    ELSE [h |-> h, panic |-> FALSE]

\* A faulty MergeNilCase, which deletes the key instead of storing nil.
MergeNilCaseDelete(h, m, options, k) ==
    IF options.Nillify THEN [h |-> SetKey(h, m, k, Absent), panic |-> FALSE]
    ELSE [h |-> h, panic |-> FALSE]

\* A faulty MergeNilCase, which stores nil whatever the options are.
MergeNilCaseAlways(h, m, options, k) ==
    [h |-> SetKey(h, m, k, Nil), panic |-> FALSE]

\* Merge's `case nil:` for the key k, whose source value is nil.
MergeNilCase(h, m, options, k) ==
    IF options.Nillify THEN [h |-> SetKey(h, m, k, Nil), panic |-> FALSE]
    ELSE [h |-> h, panic |-> FALSE]

\* A faulty MergeDefaultCase, which stores the source's value itself.
MergeDefaultCaseAlias(h, m, v, options, k, ord) ==
    IF ~HasKey(h, m, k) \/ options.Overwrite
    THEN [h |-> SetKey(h, m, k, v), panic |-> FALSE]
    ELSE [h |-> h, panic |-> FALSE]

\* Merge's `default:` for the key k, whose source value v is a scalar, a
\* slice or a map that is no Mapping.
MergeDefaultCase(h, m, v, options, k, ord) ==
    IF ~HasKey(h, m, k) \/ options.Overwrite
    THEN Store(deepCopy(h, v, ord), m, k)
    ELSE [h |-> h, panic |-> FALSE]

\* One iteration of Merge's loop, for the key k of source: the type switch.
MergeKey(h, m, source, options, k, ord) ==
    LET v == h[source].kv[k]
    IN  IF IsMapping(h, v) THEN MergeMappingCase(h, m, v, options, k, ord)
        ELSE IF v = Nil THEN MergeNilCase(h, m, options, k)
        ELSE MergeDefaultCase(h, m, v, options, k, ord)

\* Merge's loop over the keys ks of source.
MergeKeys(h, m, source, options, ks, ord) ==
    IF ks = <<>> THEN [h |-> h, panic |-> FALSE]
    ELSE MergeKeysThen(MergeKey(h, m, source, options, Head(ks), ord),
                       m, source, options, ks, ord)

\* The rest of the loop once the iteration for Head(ks) has returned r.
MergeKeysThen(r, m, source, options, ks, ord) ==
    IF r.panic THEN r
    ELSE MergeKeys(r.h, m, source, options, Tail(ks), ord)

\* (m Mapping) Merge(source Mapping, opts ...MergeOption), on the Mappings at
\* addresses m and source.
Merge(h, m, source, options, ord) ==
    MergeKeys(h, m, source, options, PresentKeys(h, source, ord), ord)

\* --------------------------------------------------- merger, append option

\* WithAppend() is called by the tests (TestMerge, "slice append") and is not
\* part of mapping.go: m.Merge(source, WithAppend()) is modelled from that
\* test.  Where m and source both hold a slice of the same type at a key, m
\* gets at that key a slice of its elements followed by copies of source's;
\* every other case is Merge's own with no option set, the merge of a Mapping
\* into a Mapping passing the append option on.

RECURSIVE MergeAppend(_, _, _, _)
RECURSIVE MergeAppendKeys(_, _, _, _, _)
RECURSIVE MergeAppendKeysThen(_, _, _, _, _)
RECURSIVE MergeAppendInto(_, _, _)

\* m and source both hold a slice of the same type at k.
BothSlices(h, m, source, k) ==
    /\ KindOf(h, h[source].kv[k]) \in SliceKinds
    /\ KindOf(h, h[m].kv[k]) = KindOf(h, h[source].kv[k])

\* append(s, t...) of the element sequences s and t.
Appended(s, t) ==
    [i \in 1..(Len(s) + Len(t)) |-> IF i <= Len(s) THEN s[i] ELSE t[i - Len(s)]]

\* m[k] = append(m[k], c...), c being the copy deepCopy returned.
AppendCopy(c, m, k) ==
    IF c.panic THEN [h |-> c.h, panic |-> TRUE]
    ELSE [h |-> SetKey(Append(c.h, SliceObj(c.h[c.v.a].kind,
                                            Appended(c.h[c.h[m].kv[k].a].el,
                                                     c.h[c.v.a].el))),
                       m, k, Ref(Len(c.h) + 1)),
          panic |-> FALSE]

\* t.v.Merge(source, WithAppend()), t being what m.DigMapping(k) returned.
MergeAppendInto(t, source, ord) == MergeAppend(t.h, t.v.a, source, ord)

\* One iteration of the loop, for the key k of source.
MergeAppendKey(h, m, source, k, ord) ==
    LET v == h[source].kv[k]
    IN  IF IsMapping(h, v) THEN
            IF ~HasKey(h, m, k) THEN Store(Dup(h, v.a, ord), m, k)
            ELSE IF HasMapping(h, m, k)
            THEN MergeAppendInto(DigMapping(h, m, <<k>>), v.a, ord)
            ELSE [h |-> h, panic |-> FALSE]
        ELSE IF v = Nil THEN MergeNilCase(h, m, NoOptions, k)
        ELSE IF BothSlices(h, m, source, k) THEN AppendCopy(deepCopy(h, v, ord), m, k)
        ELSE MergeDefaultCase(h, m, v, NoOptions, k, ord)

\* The loop over the keys ks of source.
MergeAppendKeys(h, m, source, ks, ord) ==
    IF ks = <<>> THEN [h |-> h, panic |-> FALSE]
    ELSE MergeAppendKeysThen(MergeAppendKey(h, m, source, Head(ks), ord),
                             m, source, ks, ord)

MergeAppendKeysThen(r, m, source, ks, ord) ==
    IF r.panic THEN r
    ELSE MergeAppendKeys(r.h, m, source, Tail(ks), ord)

\* m.Merge(source, WithAppend())
MergeAppend(h, m, source, ord) ==
    MergeAppendKeys(h, m, source, PresentKeys(h, source, ord), ord)

\* ------------------------------------------------------------ inspection

\* The addresses the values held by the object at address x refer to.
Children(h, x) ==
    {h[x].kv[k].a : k \in {j \in Keys : IsRef(h[x].kv[j])}}
        \cup {h[x].fk[k].a : k \in {j \in AnyKeys : IsRef(h[x].fk[j])}}
        \cup {h[x].el[i].a : i \in {j \in 1..Len(h[x].el) : IsRef(h[x].el[j])}}

RECURSIVE ReachSet(_, _)

\* The addresses reachable from the addresses S.
ReachSet(h, S) ==
    LET N == S \cup UNION {Children(h, x) : x \in S}
    IN  IF N = S THEN S ELSE ReachSet(h, N)

\* The maps and slices reachable from the value v (v's own object included).
Reach(h, v) == IF IsRef(v) THEN ReachSet(h, {v.a}) ELSE {}

RECURSIVE Equal(_, _, _, _)

\* Structural equality of the value v1 in heap h1 and the value v2 in heap
\* h2: same dynamic types, same key sets, same lengths, equal values at every
\* depth (reflect.DeepEqual on the shapes the model holds).
Equal(h1, v1, h2, v2) ==
    IF IsRef(v1) /\ IsRef(v2)
    THEN /\ h1[v1.a].kind = h2[v2.a].kind
         /\ \A k \in Keys : Equal(h1, h1[v1.a].kv[k], h2, h2[v2.a].kv[k])
         /\ \A k \in AnyKeys : Equal(h1, h1[v1.a].fk[k], h2, h2[v2.a].fk[k])
         /\ Len(h1[v1.a].el) = Len(h2[v2.a].el)
         /\ \A i \in 1..Len(h1[v1.a].el) :
                Equal(h1, h1[v1.a].el[i], h2, h2[v2.a].el[i])
    ELSE v1 = v2

RECURSIVE At(_, _, _)

\* What the Mapping at address m holds at the non-empty path keys, walking
\* through Mappings only: m[k1].(Mapping)[k2]...  Absent when a key on the
\* way is not present or a proper prefix holds no Mapping.  Unlike Dig this
\* tells "not present" (Absent) from "present and nil" (Nil).
At(h, m, keys) ==
    LET v == h[m].kv[keys[1]]
    IN  IF Len(keys) = 1 THEN v
        ELSE IF IsMapping(h, v) THEN At(h, v.a, Tail(keys))
        ELSE Absent

\* --------------------------------------------------------------- literals

\* The bound on the nesting depth of the Mappings the program starts with,
\* and on the length of the paths it digs.
MaxDepth == 2

\* The bound on the number of writes made after a call.
MaxWrites == 1

RECURSIVE PathsOfLen(_)
PathsOfLen(n) ==
    IF n = 0 THEN {<<>>}
    ELSE {<<k>> \o p : k \in Keys, p \in PathsOfLen(n - 1)}

\* The paths handed to Dig, DigString and DigMapping (the empty one included).
Paths == UNION {PathsOfLen(n) : n \in 0..MaxDepth}

\* What a key of a literal holds when it holds no map or slice.
Leaves == {Absent, Nil, Str(1)}

\* Mapping{"a": va, "b": vb}, a key left out when its value is Absent.
MappingLit(h, va, vb) ==
    LET n == Alloc(h, MapObj("Mapping", [k \in Keys |-> IF k = "a" THEN va ELSE vb]))
    IN  [h |-> n.h, v |-> Ref(n.a)]

\* A slice literal of the given type with the one element e.
SliceLit(h, kind, e) ==
    LET n == Alloc(h, SliceObj(kind, <<e>>))
    IN  [h |-> n.h, v |-> Ref(n.a)]

\* The slice literals: []string{"1"}, []any{nil}, and []Mapping{{"b": l}},
\* []Mapping{{}}.
GenSlices(h) ==
    {SliceLit(h, "[]string", Str(1)), SliceLit(h, "[]any", Nil)}
        \cup {LET e == MappingLit(h, Absent, l)
              IN  SliceLit(e.h, "[]Mapping", e.v) : l \in Leaves}

RECURSIVE GenMapping(_, _)

\* The Mapping literals of nesting depth at most d: key "a" holds a leaf, a
\* slice or (d > 1) a Mapping of depth at most d - 1, key "b" holds a leaf.
GenMapping(h, d) ==
    LET slotA == {[h |-> h, v |-> l] : l \in Leaves} \cup GenSlices(h)
                    \cup (IF d > 1 THEN GenMapping(h, d - 1) ELSE {})
    IN  UNION {{MappingLit(ra.h, ra.v, l) : l \in Leaves} : ra \in slotA}

\* The nesting depth of the decoded documents.
DocDepth == MaxDepth + 2

\* map[string]any{"a": va, "b": vb} as a decoder builds it.
RawMapLit(h, va, vb) ==
    LET n == Alloc(h, MapObj("map[string]any",
                             [k \in Keys |-> IF k = "a" THEN va ELSE vb]))
    IN  [h |-> n.h, v |-> Ref(n.a)]

\* map[any]any{"a": vs, 1: vi}: a key that is the string a and a key of
\* another type that prints as a.
AnyMapLit(h, vs, vi) ==
    LET n == Alloc(h, AnyMapObj([k \in AnyKeys |->
                 IF k.s = "a" THEN (IF k.t = "string" THEN vs ELSE vi) ELSE Absent]))
    IN  [h |-> n.h, v |-> Ref(n.a)]

\* A key that is left out of a literal.
LeftOut(h) == [h |-> h, v |-> Absent]

\* The map[string]any, the map[any]any and the []any literals holding, at
\* the key a or as the one element, one of the values of slot; LeftOut among
\* them leaves the key a out.
GenRawMaps(slot) ==
    UNION {{RawMapLit(e.h, e.v, l) : l \in {Absent, Nil}} : e \in slot}

GenAnyMaps(slot) ==
    UNION {{AnyMapLit(e.h, e.v, l) : l \in {Absent, Nil, Str(2)}} : e \in slot}

GenRawSlices(slot) ==
    {SliceLit(e.h, "[]any", e.v) : e \in {f \in slot : f.v # Absent}}

RECURSIVE GenRawValue(_, _)

\* The decoded values of nesting depth at most d: nil, a string, a
\* map[string]any, a map[any]any, a []any.
GenRawValue(h, d) ==
    {[h |-> h, v |-> l] : l \in {Nil, Str(1)}}
        \cup (IF d = 0 THEN {}
              ELSE UNION {GenRawMaps(slot) \cup GenAnyMaps(slot) \cup GenRawSlices(slot) :
                          slot \in {{LeftOut(h)} \cup GenRawValue(h, d - 1)}})

\* What a decoder makes of a text: an error (Absent), a nil map (the text
\* `null`), or a map[string]any of nesting depth at most DocDepth.
GenDocs ==
    {[h |-> <<>>, v |-> Absent], [h |-> <<>>, v |-> Nil]}
        \cup GenRawMaps({LeftOut(<<>>)} \cup GenRawValue(<<>>, DocDepth - 1))

\* ------------------------------------------------------------ the program

VARIABLES
    heap,      \* the maps and slices allocated so far, by address
    pre,       \* the heap before the last step
    hnd,       \* the program's variables: m, other, dup (m.Dup()), r (m.DigMapping(..)),
               \* doc (what the decoder makes of the text to decode)
    call,      \* the last call of the package's API: op, arguments, result
    write,     \* the last write made after the call
    nwrites,   \* the number of writes made after the call
    panicked   \* whether a call panicked

vars == <<heap, pre, hnd, call, write, nwrites, panicked>>

NoCall == [op |-> "none", keys |-> <<>>, options |-> NoOptions, ret |-> Nil]
NoWrite == [op |-> "none", side |-> "m", x |-> 0, k |-> "a", i |-> 0, v |-> Nil]

Bool(b) == [t |-> "bool", a |-> IF b THEN 1 ELSE 0]

\* A program holding one Mapping literal m.
Init ==
    \E f \in GenMapping(<<>>, MaxDepth) :
        /\ heap = f.h
        /\ pre = f.h
        /\ hnd = [m |-> f.v, other |-> Nil, dup |-> Nil, r |-> Nil, doc |-> Nil]
        /\ call = NoCall
        /\ write = NoWrite
        /\ nwrites = 0
        /\ panicked = FALSE

\* A program holding two Mapping literals, m and other.
InitMerge ==
    \E f \in GenMapping(<<>>, MaxDepth) :
        \E g \in GenMapping(f.h, MaxDepth) :
            /\ heap = g.h
            /\ pre = g.h
            /\ hnd = [m |-> f.v, other |-> g.v, dup |-> Nil, r |-> Nil, doc |-> Nil]
            /\ call = NoCall
            /\ write = NoWrite
            /\ nwrites = 0
            /\ panicked = FALSE

\* A program holding `var m dig.Mapping` and a text to decode into it.
InitDecode ==
    \E f \in GenDocs :
        /\ heap = f.h
        /\ pre = f.h
        /\ hnd = [m |-> Nil, other |-> Nil, dup |-> Nil, r |-> Nil, doc |-> f.v]
        /\ call = NoCall
        /\ write = NoWrite
        /\ nwrites = 0
        /\ panicked = FALSE

\* A program holding two Mapping literals, m and a deeper other.
InitMergeTwice ==
    \E f \in GenMapping(<<>>, MaxDepth) :
        \E g \in GenMapping(f.h, MaxDepth + 1) :
            /\ heap = g.h
            /\ pre = g.h
            /\ hnd = [m |-> f.v, other |-> g.v, dup |-> Nil, r |-> Nil, doc |-> Nil]
            /\ call = NoCall
            /\ write = NoWrite
            /\ nwrites = 0
            /\ panicked = FALSE

\* A call that reads only: the heap and the variables stay.
Reads(op, keys, ret) ==
    /\ call.op = "none"
    /\ call' = [op |-> op, keys |-> keys, options |-> NoOptions, ret |-> ret]
    /\ pre' = heap
    /\ UNCHANGED <<heap, hnd, write, nwrites, panicked>>

\* m.Dig(keys...)
DigStep == \E keys \in Paths : Reads("Dig", keys, Dig(heap, hnd.m.a, keys))

\* m.DigString(keys...)
DigStringStep ==
    \E keys \in Paths : Reads("DigString", keys, DigString(heap, hnd.m.a, keys))

\* m.HasKey(key)
HasKeyStep ==
    \E key \in Keys : Reads("HasKey", <<key>>, Bool(HasKey(heap, hnd.m.a, key)))

\* m.HasMapping(key)
HasMappingStep ==
    \E key \in Keys :
        Reads("HasMapping", <<key>>, Bool(HasMapping(heap, hnd.m.a, key)))

\* r = m.DigMapping(keys...)
DigMappingStep ==
    /\ call.op = "none"
    /\ \E keys \in Paths :
        LET res == DigMapping(heap, hnd.m.a, keys)
        IN  /\ heap' = res.h
            /\ hnd' = [hnd EXCEPT !.r = res.v]
            /\ call' = [op |-> "DigMapping", keys |-> keys,
                        options |-> NoOptions, ret |-> res.v]
            /\ panicked' = res.panic
    /\ pre' = heap
    /\ UNCHANGED <<write, nwrites>>

\* dup = m.Dup().  The order in which the ranges visit the keys shows only
\* in what a panicking call leaves behind.
DupStep ==
    /\ call.op = "none"
    /\ \E ord \in Perms :
        LET res == Dup(heap, hnd.m.a, ord)
        IN  /\ res.panic \/ ord = CanonOrd
            /\ heap' = res.h
            /\ hnd' = [hnd EXCEPT !.dup = res.v]
            /\ call' = [op |-> "Dup", keys |-> <<>>, options |-> NoOptions,
                        ret |-> res.v]
            /\ panicked' = res.panic
    /\ pre' = heap
    /\ UNCHANGED <<write, nwrites>>

\* m.Merge(other, opts...)
MergeStep ==
    /\ call.op = "none"
    /\ \E options \in OptionSets, ord \in Perms :
        LET res == Merge(heap, hnd.m.a, hnd.other.a, options, ord)
        IN  /\ res.panic \/ ord = CanonOrd
            /\ heap' = res.h
            /\ call' = [op |-> "Merge", keys |-> <<>>, options |-> options,
                        ret |-> Nil]
            /\ panicked' = res.panic
    /\ pre' = heap
    /\ UNCHANGED <<hnd, write, nwrites>>

\* The variables a later write goes through: m and dup after a Dup, r after
\* a DigMapping.
Sides ==
    IF call.op = "Dup" THEN {"m", "dup"}
    ELSE IF call.op = "DigMapping" THEN {"r"}
    ELSE {}

\* The objects a write through the variable side can be made to: any map or
\* slice reachable from it; through r, the returned Mapping itself.
Writable(side) ==
    IF side = "r" THEN {hnd.r.a} ELSE Reach(heap, hnd[side])

\* The values a later write stores.
Written == {Nil, Str(2)}

CanWrite == ~panicked /\ nwrites < MaxWrites

\* x[k] = v on a Mapping x reached through a variable.
AssignStep ==
    /\ CanWrite
    /\ \E side \in Sides :
        \E x \in {y \in Writable(side) : heap[y].kind = "Mapping"} :
            \E k \in Keys, v \in Written :
                /\ heap' = SetKey(heap, x, k, v)
                /\ write' = [op |-> "Assign", side |-> side, x |-> x, k |-> k,
                             i |-> 0, v |-> v]
    /\ pre' = heap
    /\ nwrites' = nwrites + 1
    /\ UNCHANGED <<hnd, call, panicked>>

\* s[i] = v on a slice s reached through a variable; a []Mapping element is
\* set to a new Mapping{}, a []string element to a string.
SetElemStep ==
    /\ CanWrite
    /\ \E side \in Sides :
        \E x \in {y \in Writable(side) : heap[y].kind \in SliceKinds} :
            \E i \in 1..Len(heap[x].el) :
                LET lit == MappingLit(heap, Absent, Absent)
                    v == IF heap[x].kind = "[]Mapping" THEN lit.v ELSE Str(2)
                    h == IF heap[x].kind = "[]Mapping" THEN lit.h ELSE heap
                IN  /\ heap' = SetElem(h, x, i, v)
                    /\ write' = [op |-> "SetElem", side |-> side, x |-> x,
                                 k |-> "a", i |-> i, v |-> v]
    /\ pre' = heap
    /\ nwrites' = nwrites + 1
    /\ UNCHANGED <<hnd, call, panicked>>

Next ==
    \/ DigStep
    \/ DigStringStep
    \/ HasKeyStep
    \/ HasMappingStep
    \/ DigMappingStep
    \/ DupStep
    \/ AssignStep
    \/ SetElemStep

Spec == Init /\ [][Next]_vars

NextMerge == MergeStep

\* The map[any]any of the document.
AnyMaps == {x \in Reach(heap, hnd.doc) : heap[x].kind = "map[any]any"}

\* err = json.Unmarshal(text, &m): encoding/json makes string-keyed maps only.
UnmarshalJSONStep ==
    /\ call.op = "none"
    /\ AnyMaps = {}
    /\ LET res == UnmarshalJSON(heap, hnd.m, hnd.doc, {})
       IN  /\ heap' = res.h
           /\ hnd' = [hnd EXCEPT !.m = res.m]
           /\ call' = [op |-> "UnmarshalJSON", keys |-> <<>>,
                       options |-> NoOptions, ret |-> res.err]
    /\ pre' = heap
    /\ UNCHANGED <<write, nwrites, panicked>>

\* err = yaml.Unmarshal(text, &m)
UnmarshalYAMLStep ==
    /\ call.op = "none"
    /\ \E rev \in SUBSET AnyMaps :
        LET res == UnmarshalYAML(heap, hnd.m, hnd.doc, rev)
        IN  /\ heap' = res.h
            /\ hnd' = [hnd EXCEPT !.m = res.m]
            /\ call' = [op |-> "UnmarshalYAML", keys |-> <<>>,
                        options |-> NoOptions, ret |-> res.err]
    /\ pre' = heap
    /\ UNCHANGED <<write, nwrites, panicked>>

\* m.Merge(other, opts...) once more, after it has returned, with the same
\* options.
MergeAgainStep ==
    /\ call.op = "Merge" /\ ~panicked
    /\ \E ord \in Perms :
        LET res == Merge(heap, hnd.m.a, hnd.other.a, call.options, ord)
        IN  /\ res.panic \/ ord = CanonOrd
            /\ heap' = res.h
            /\ panicked' = res.panic
    /\ call' = [call EXCEPT !.op = "MergeAgain"]
    /\ pre' = heap
    /\ UNCHANGED <<hnd, write, nwrites>>

NextMergeTwice ==
    \/ MergeStep
    \/ MergeAgainStep

SpecMergeTwice == InitMergeTwice /\ [][NextMergeTwice]_vars

\* m.Merge(other, dig.WithAppend())
MergeAppendStep ==
    /\ call.op = "none"
    /\ \E ord \in Perms :
        LET res == MergeAppend(heap, hnd.m.a, hnd.other.a, ord)
        IN  /\ res.panic \/ ord = CanonOrd
            /\ heap' = res.h
            /\ call' = [op |-> "MergeAppend", keys |-> <<>>, options |-> NoOptions,
                        ret |-> Nil]
            /\ panicked' = res.panic
    /\ pre' = heap
    /\ UNCHANGED <<hnd, write, nwrites>>

NextAppend == MergeAppendStep

SpecAppend == InitMerge /\ [][NextAppend]_vars

NextDecode ==
    \/ UnmarshalJSONStep
    \/ UnmarshalYAMLStep

SpecDecode == InitDecode /\ [][NextDecode]_vars

SpecMerge == InitMerge /\ [][NextMerge]_vars

\* ------------------------------------------------------------ properties

\* The objects reachable from v hold in the heap what they held before the
\* last step.
Untouched(v) == \A x \in Reach(pre, v) : heap[x] = pre[x]

Returned(op) == call.op = op /\ ~panicked

\* C1: After dup = m.Dup() no map or slice reachable from dup is the same
\* object as one reachable from m, and a later write through m (a key
\* assignment on any Mapping reachable from m, an element update on any slice
\* reachable from m) leaves everything reachable from dup as it was, and the
\* other way round.
DupIndependent ==
    Returned("Dup") =>
        /\ Reach(heap, hnd.dup) \cap Reach(heap, hnd.m) = {}
        /\ write.op # "none" /\ write.side = "m" => Untouched(hnd.dup)
        /\ write.op # "none" /\ write.side = "dup" => Untouched(hnd.m)

\* C1 witness: m held a nested Mapping and a slice when it was copied, and a
\* key of a Mapping nested in m has since been given a new value.
DupIndependentWitness ==
    /\ Returned("Dup")
    /\ write.op = "Assign" /\ write.side = "m" /\ write.x # hnd.m.a
    /\ heap[write.x] # pre[write.x]
    /\ \E x \in Reach(heap, hnd.dup) \ {hnd.dup.a} : heap[x].kind = "Mapping"
    /\ \E x \in Reach(heap, hnd.dup) : heap[x].kind \in SliceKinds

\* C2: Right after dup = m.Dup(), dup is structurally equal to m: the same
\* key sets and equal values at every depth, a key holding nil included.
DupEqual ==
    Returned("Dup") /\ write.op = "none" => Equal(heap, hnd.m, heap, hnd.dup)

\* C3: No call panics, except DigMapping with an empty path.
NoFailure ==
    panicked => call.op = "DigMapping" /\ call.keys = <<>>

\* C4: After r = m.DigMapping(keys...) with a non-empty path, Dig resolves
\* every non-empty prefix of the path to a Mapping and the whole path to r
\* itself, and after a later r[k] = v, m.Dig(keys..., k) is v.
DigMappingLive ==
    call.op = "DigMapping" /\ call.keys # <<>> =>
        /\ ~panicked
        /\ hnd.r = call.ret
        /\ write.op = "none" =>
            /\ \A n \in 1..Len(call.keys) :
                   IsMapping(heap, Dig(heap, hnd.m.a, SubSeq(call.keys, 1, n)))
            /\ Dig(heap, hnd.m.a, call.keys) = hnd.r
        /\ write.op = "Assign" /\ write.x = hnd.r.a =>
               Dig(heap, hnd.m.a, Append(call.keys, write.k)) = write.v

\* C4 witness: the path had two keys, the first held a Mapping of the
\* literal, the second held no Mapping there, so that the call made r, and a
\* string was then written through r.
DigMappingLiveWitness ==
    /\ call.op = "DigMapping" /\ Len(call.keys) = 2
    /\ write.op = "Assign" /\ write.x = hnd.r.a /\ write.v = Str(2)
    /\ heap[hnd.m.a].kv[call.keys[1]].a < hnd.m.a
    /\ hnd.r.a = Len(heap)
    /\ Dig(heap, hnd.m.a, <<call.keys[1], call.keys[2], write.k>>) = Str(2)

\* The non-empty paths.
KeyPaths == Paths \ {<<>>}

\* Merge reaches the path P by recursion: every proper prefix of P held a
\* Mapping in m and in other before the call.
Recursed(P) ==
    \A n \in 1..(Len(P) - 1) :
        /\ IsMapping(pre, At(pre, hnd.m.a, SubSeq(P, 1, n)))
        /\ IsMapping(pre, At(pre, hnd.other.a, SubSeq(P, 1, n)))

\* v is a scalar.
IsLeaf(v) == v.t = "string"

\* C5: After m.Merge(other, opts...) every object of other holds what it
\* held before, and no map or slice reachable from m is the same object as
\* one reachable from other.
MergeSourceUntouched ==
    call.op = "Merge" =>
        /\ Untouched(hnd.other)
        /\ ~panicked => Reach(heap, hnd.m) \cap Reach(heap, hnd.other) = {}

\* C5 witness: Merge gave m, at a key it did not hold, a slice of Mappings
\* where other holds one.
MergeSourceUntouchedWitness ==
    /\ Returned("Merge")
    /\ \E k \in Keys :
        /\ pre[hnd.m.a].kv[k] = Absent
        /\ KindOf(heap, heap[hnd.m.a].kv[k]) = "[]Mapping"
        /\ KindOf(heap, heap[hnd.other.a].kv[k]) = "[]Mapping"

\* C6: For every key reached by Merge at which other holds a scalar or a
\* slice, m holds afterwards a copy equal to other's value if m did not hold
\* the key or Overwrite is set, and exactly its previous value otherwise.
MergeOverwriteRule ==
    Returned("Merge") =>
        \A P \in KeyPaths :
            LET s == At(pre, hnd.other.a, P)
                t == At(pre, hnd.m.a, P)
                u == At(heap, hnd.m.a, P)
            IN  Recursed(P) /\ (IsLeaf(s) \/ KindOf(pre, s) \in SliceKinds) =>
                    IF t = Absent \/ call.options.Overwrite
                    THEN Equal(heap, u, pre, s) /\ Reach(heap, u) \cap Reach(pre, s) = {}
                    ELSE u = t /\ Untouched(t)

MergeIgnoresNulls ==
    Returned("Merge") /\ ~call.options.Nillify =>
        \A P \in KeyPaths :
            At(pre, hnd.other.a, P) = Nil =>
                /\ At(heap, hnd.m.a, P) = At(pre, hnd.m.a, P)
                /\ Untouched(At(pre, hnd.m.a, P))

\* C8 amended: the same, for the paths Merge reaches by recursion (every
\* proper prefix of the path held a Mapping in m too).
MergeIgnoresNullsRecursed ==
    Returned("Merge") /\ ~call.options.Nillify =>
        \A P \in KeyPaths :
            Recursed(P) /\ At(pre, hnd.other.a, P) = Nil =>
                /\ At(heap, hnd.m.a, P) = At(pre, hnd.m.a, P)
                /\ Untouched(At(pre, hnd.m.a, P))

\* C8 witness: Overwrite without Nillify, and in a nested Mapping a key at
\* which other held nil and m a string, which m still holds; and another at
\* which other held nil and m nothing.
MergeIgnoresNullsWitness ==
    /\ Returned("Merge") /\ ~call.options.Nillify /\ call.options.Overwrite
    /\ \E P \in KeyPaths :
        /\ Len(P) = 2 /\ Recursed(P)
        /\ At(pre, hnd.other.a, P) = Nil
        /\ At(heap, hnd.m.a, P) = Str(1)
    /\ \E P \in KeyPaths :
        /\ Len(P) = 1
        /\ At(pre, hnd.other.a, P) = Nil
        /\ At(heap, hnd.m.a, P) = Absent

\* C9: After Merge with Nillify, m has no key at which other holds nil.
NillifyRemovesKeys ==
    Returned("Merge") /\ call.options.Nillify =>
        \A k \in Keys :
            pre[hnd.other.a].kv[k] = Nil => ~HasKey(heap, hnd.m.a, k)

\* C10: Where m and other both held a Mapping at a key reached by Merge, m
\* holds the same Mapping object afterwards, its keys that other's Mapping
\* does not hold keep their values, and the keys other's Mapping holds are
\* merged under the same options.
MergeRecursive ==
    Returned("Merge") =>
        \A P \in KeyPaths :
            LET s == At(pre, hnd.other.a, P)
                t == At(pre, hnd.m.a, P)
            IN  Recursed(P) /\ IsMapping(pre, s) /\ IsMapping(pre, t) =>
                    /\ At(heap, hnd.m.a, P) = t
                    /\ \A k \in Keys :
                        LET sv == pre[s.a].kv[k]
                            tv == pre[t.a].kv[k]
                            uv == heap[t.a].kv[k]
                        IN  /\ sv = Absent => uv = tv /\ Untouched(tv)
                            /\ sv = Nil =>
                                   uv = IF call.options.Nillify THEN Nil ELSE tv
                            /\ IsLeaf(sv) =>
                                   uv = IF tv = Absent \/ call.options.Overwrite
                                        THEN sv ELSE tv
                            /\ IsMapping(pre, sv) /\ IsMapping(pre, tv) => uv = tv

\* C10 witness: Overwrite and Nillify, m and other both held a Mapping at a
\* key, m's with a slice at a key other's did not hold, other's with a value
\* at a key m's did not hold.
MergeRecursiveWitness ==
    /\ Returned("Merge") /\ call.options.Overwrite /\ call.options.Nillify
    /\ \E j \in Keys :
        LET s == pre[hnd.other.a].kv[j]
            t == pre[hnd.m.a].kv[j]
        IN  /\ IsMapping(pre, s) /\ IsMapping(pre, t)
            /\ \E k \in Keys : pre[s.a].kv[k] = Absent /\ IsRef(heap[t.a].kv[k])
            /\ \E k \in Keys : pre[s.a].kv[k] # Absent /\ pre[t.a].kv[k] = Absent

\* C11: m.Dig(P) returns nil when P is empty; otherwise it returns what is
\* stored at P when every proper prefix of P resolves to a Mapping and the
\* last key is present, and nil when a key along P is not present, when a
\* proper prefix holds a value that is no Mapping, or when P holds nil.
DigReference ==
    call.op = "Dig" =>
        /\ ~panicked
        /\ heap = pre
        /\ call.ret = IF call.keys = <<>> THEN Nil
                      ELSE IF At(heap, hnd.m.a, call.keys) = Absent THEN Nil
                      ELSE At(heap, hnd.m.a, call.keys)

\* C11 witness: Dig walked through a nested Mapping to a string.
DigReferenceWitness ==
    /\ call.op = "Dig" /\ Len(call.keys) = 2
    /\ IsMapping(heap, heap[hnd.m.a].kv[call.keys[1]])
    /\ call.ret = Str(1)

\* A decode hook has returned without an error.
Decoded == call.op \in {"UnmarshalJSON", "UnmarshalYAML"} /\ call.ret = Nil

\* Every map or slice reachable from m is a Mapping or a []any.
Canonical ==
    \A x \in Reach(heap, hnd.m) : heap[x].kind \in {"Mapping", "[]any"}

\* The keys of the map[any]any at address x that hold a value and print as s.
Printing(x, s) == {k \in AnyKeys : Sprint(k) = s /\ pre[x].fk[k] # Absent}

RECURSIVE Kept(_, _, _)

\* The decoded value v (in the heap before the call) is kept as w (in the
\* heap after it): a scalar or nil as itself, a []any as a []any of the kept
\* elements, a map as a Mapping holding, at the text of every key, what the
\* key held, kept, and nothing at any other key.  With every, this is asked of
\* every key of a map[any]any; without, of the keys that share their text
\* with no other key, a text that several keys share holding what one of
\* them held.
Kept(v, w, every) ==
    IF ~IsRef(v) THEN w = v
    ELSE IF pre[v.a].kind = "[]any"
    THEN /\ KindOf(heap, w) = "[]any"
         /\ Len(heap[w.a].el) = Len(pre[v.a].el)
         /\ \A i \in 1..Len(pre[v.a].el) :
                Kept(pre[v.a].el[i], heap[w.a].el[i], every)
    ELSE IF pre[v.a].kind = "map[string]any"
    THEN /\ IsMapping(heap, w)
         /\ \A k \in Keys : Kept(pre[v.a].kv[k], heap[w.a].kv[k], every)
    ELSE /\ pre[v.a].kind = "map[any]any"
         /\ IsMapping(heap, w)
         /\ \A s \in Keys :
                IF Printing(v.a, s) = {} THEN heap[w.a].kv[s] = Absent
                ELSE IF every \/ Cardinality(Printing(v.a, s)) = 1
                THEN \A k \in Printing(v.a, s) :
                         Kept(pre[v.a].fk[k], heap[w.a].kv[s], every)
                ELSE \E k \in Printing(v.a, s) :
                         Kept(pre[v.a].fk[k], heap[w.a].kv[s], every)

\* C12 as stated: after a decode hook has succeeded, every map reachable
\* from m is a Mapping, and every field of every decoded map, a field
\* holding nil included, is a present key of the Mapping made of it, holding
\* the field's value.
NormalizedKeepsEveryField ==
    Decoded =>
        /\ Canonical
        /\ IsRef(hnd.doc) => Kept(hnd.doc, hnd.m, TRUE)

\* C12 amended: the same, except that where several keys of one map[any]any
\* print as the same text, the Mapping holds at that text the value of one
\* of them.
NormalizedCanonical ==
    Decoded =>
        /\ Canonical
        /\ IsMapping(heap, hnd.m)
        /\ IsRef(hnd.doc) => Kept(hnd.doc, hnd.m, FALSE)

\* C12 witness: the document held, inside a sequence inside a sequence, a
\* map[any]any with a key that is no string holding nil, and the Mapping made
\* of it holds nil at that key's text.
NormalizedCanonicalWitness ==
    /\ Decoded
    /\ \E s1 \in Reach(pre, hnd.doc), t1 \in Reach(heap, hnd.m) :
        /\ pre[s1].kind = "[]any" /\ KindOf(pre, pre[s1].el[1]) = "[]any"
        /\ KindOf(pre, pre[pre[s1].el[1].a].el[1]) = "map[any]any"
        /\ pre[pre[pre[s1].el[1].a].el[1].a].fk[[t |-> "int", s |-> "a"]] = Nil
        /\ heap[t1].kind = "[]any" /\ KindOf(heap, heap[t1].el[1]) = "[]any"
        /\ IsMapping(heap, heap[heap[t1].el[1].a].el[1])
        /\ heap[heap[heap[t1].el[1].a].el[1].a].kv["a"] = Nil

\* C13: m.DigMapping() with no keys fails at once: it panics, returns no
\* Mapping and leaves every object as it was.
DigMappingEmptyRejected ==
    call.op = "DigMapping" /\ call.keys = <<>> =>
        /\ panicked
        /\ call.ret = Nil /\ hnd.r = Nil
        /\ heap = pre

\* C13 witness: DigMapping was called with no keys on a Mapping that holds a
\* Mapping, and panicked.
DigMappingEmptyRejectedWitness ==
    /\ call.op = "DigMapping" /\ call.keys = <<>> /\ panicked
    /\ \E k \in Keys : IsMapping(heap, heap[hnd.m.a].kv[k])

\* The length of the shortest prefix of P at which m holds no Mapping before
\* the call; 0 when m holds a Mapping at every prefix of P.
FirstGap(P) ==
    LET gaps == {n \in 1..Len(P) :
                    ~IsMapping(pre, At(pre, hnd.m.a, SubSeq(P, 1, n)))}
    IN  IF gaps = {} THEN 0
        ELSE CHOOSE n \in gaps : \A j \in gaps : n <= j

\* The Mapping that holds the last key of the prefix of P of length n.
Holder(P, n) ==
    IF n = 1 THEN hnd.m.a ELSE At(pre, hnd.m.a, SubSeq(P, 1, n - 1)).a

\* C15: r = m.DigMapping(P...) with a non-empty P changes one entry only, the
\* one at the shortest prefix of P at which m held no Mapping: it now holds
\* the first of a chain of new Mappings, one for each further key of P, each
\* holding the next at that key and nothing else, the last being empty and
\* r.  Every other key of every Mapping and every other object is as it was.
\* When m held a Mapping at every prefix of P nothing changes and r is the
\* Mapping held at P.  A second m.DigMapping(P...) then returns r again and
\* changes nothing.
DigMappingFrame ==
    call.op = "DigMapping" /\ call.keys # <<>> /\ write.op = "none" =>
        LET P == call.keys
            n == FirstGap(P)
            new == Len(P) - n + 1
        IN  /\ ~panicked
            /\ IF n = 0
               THEN heap = pre /\ hnd.r = At(pre, hnd.m.a, P)
               ELSE /\ Len(heap) = Len(pre) + new
                    /\ \A x \in 1..Len(pre) : x # Holder(P, n) => heap[x] = pre[x]
                    /\ heap[Holder(P, n)] =
                           [pre[Holder(P, n)] EXCEPT !.kv[P[n]] = Ref(Len(pre) + 1)]
                    /\ \A i \in 1..new :
                           heap[Len(pre) + i] =
                               MapObj("Mapping",
                                      IF i = new THEN NoKeys
                                      ELSE [NoKeys EXCEPT ![P[n + i]] = Ref(Len(pre) + i + 1)])
                    /\ hnd.r = Ref(Len(heap))
            /\ DigMapping(heap, hnd.m.a, P) = [h |-> heap, v |-> hnd.r, panic |-> FALSE]

\* C15 witness: the path had two keys, m held a slice at the first and a
\* string at the other key, and the call made two Mappings.
DigMappingFrameWitness ==
    /\ call.op = "DigMapping" /\ Len(call.keys) = 2 /\ write.op = "none"
    /\ KindOf(pre, pre[hnd.m.a].kv[call.keys[1]]) \in SliceKinds
    /\ \E k \in Keys \ {call.keys[1]} :
           pre[hnd.m.a].kv[k] = Str(1) /\ heap[hnd.m.a].kv[k] = Str(1)
    /\ Len(heap) = Len(pre) + 2
    /\ hnd.r = Ref(Len(heap))

MergeIdempotent ==
    Returned("MergeAgain") => Equal(pre, hnd.m, heap, hnd.m)

====
